---------------------------- MODULE Spec2Model ----------------------------
(***************************************************************************)
(* Offer inventory and reservation engine of the catalog service.          *)
(*                                                                         *)
(*   services/catalog/src/domain/offer.py     Money, OfferStatus, Offer    *)
(*   services/catalog/src/services/offers.py  OfferService (use cases)     *)
(*   services/catalog/src/repo/offers_repo.py OffersRepo (load / save)     *)
(*                                                                         *)
(* Four specifications share this module.                                  *)
(*   SpecOffer  one Offer aggregate in memory; every domain method and the *)
(*              body of update_offer is an action on it.                   *)
(*   Spec       the persisted row of one offer id and a set of request     *)
(*              handlers (one database session each) that interleave       *)
(*              between their load and their save+commit.                  *)
(*   SpecValue  the pure functions (Money, Offer.create, discount_percent, *)
(*              list_offers) applied to arguments drawn from bounded sets. *)
(*   SpecAuth   services/auth: the verification token of one user and the  *)
(*              verify_email requests (one database session each).         *)
(*                                                                         *)
(* Instants are integers 0..MaxTime; utcnow() reads the variable clock.    *)
(* Money amounts are integers: hundredths once stored in a Money, and      *)
(* thousandths as the Decimal handed to the Money constructor.             *)
(* A title is its length: the characters that survive strip() and the      *)
(* whitespace around them.  The other text and list fields (description,   *)
(* tags, allergens, image_urls) and created_at are not modelled.           *)
(***************************************************************************)
EXTENDS Integers, FiniteSets, Sequences, TLC

\* ------------------------------------------------------------------ bounds
MaxTime == 3
MaxQty == 2
MaxRequests == 4
MaxAmount == 30
MaxCents == 12
MaxRows == 2

\* Optional[...] fields: the absent value
None == -1

Times == 0..MaxTime
Procs == {1, 2}
Places == {"p1", "p2"}

OfferStatus == {"draft", "active", "paused", "sold_out", "expired", "cancelled"}

\* error kinds a call ends with; "ok" is a normal return
Errors == {"ok", "ValidationError", "NotAvailableError",
           "InsufficientQuantityError", "NameError"}

\* ------------------------------------------------------------------ Money
\* quantize_money that drops the third decimal
quantize_money_down(amount) == amount \div 10

\* quantize_money: thousandths -> hundredths, ROUND_HALF_UP (ties away from 0)
quantize_money(amount) ==
    IF amount >= 0 THEN (amount + 5) \div 10 ELSE -((5 - amount) \div 10)

\* the currency strings explored, and str.upper on them
Currencies == {"RUB", "rub", "USD", "Usd", "RU", "", "RUBL"}

upper(s) ==
    CASE s = "rub" -> "RUB"
      [] s = "Usd" -> "USD"
      [] OTHER -> s

\* no Money: a constructor or operator that raised returns nothing
NoMoney == [amount |-> None, currency |-> ""]

\* the result of a Money constructor or operator: the value, and how it ended
Value(v, e) == [value |-> v, err |-> e]

\* Money.__post_init__: amount is the Decimal in thousandths
Money_init(amount, currency) ==
    IF amount < 0 THEN Value(NoMoney, "ValidationError")
    ELSE IF currency = "" \/ Len(currency) # 3 THEN Value(NoMoney, "ValidationError")
    ELSE Value([amount |-> quantize_money(amount), currency |-> upper(currency)], "ok")

\* Money(amount, currency) where the constructor does not raise (what the
\* request schemas let through)
Money(amount, currency) == Money_init(amount, currency).value

\* Money.__add__ without _assert_same_currency
Money_add_any_currency(a, b) == Money_init((a.amount + b.amount) * 10, a.currency)

\* Money.__add__ (stored amounts are hundredths)
Money_add(a, b) ==
    IF a.currency # b.currency THEN Value(NoMoney, "ValidationError")
    ELSE Money_init((a.amount + b.amount) * 10, a.currency)

\* Money.__sub__
Money_sub(a, b) ==
    IF a.currency # b.currency THEN Value(NoMoney, "ValidationError")
    ELSE IF a.amount < b.amount THEN Value(NoMoney, "ValidationError")
    ELSE Money_init((a.amount - b.amount) * 10, a.currency)

\* Decimal(str(numeric(12,2) column)): hundredths -> the Decimal in thousandths
ColumnDecimal(cents) == cents * 10

\* ------------------------------------------------------------------ Offer
\* no Offer: what repo.get returns for an unknown id, and the aggregate
\* before Offer.create
NoOffer == [status |-> "none"]

\* no OfferORM row for the offer id
NoRow == [status |-> "none"]

\* the title length limits of Offer._validate
MinTitle == 3
MaxTitle == 120

\* a str title: len characters between pad characters of surrounding whitespace
Title(n, pad) == [len |-> n, pad |-> pad]

\* an absent title (OfferUpdate.title is None)
NoTitle == [len |-> None, pad |-> 0]

\* str.strip
strip(t) == [t EXCEPT !.pad = 0]

\* len of a str
len(t) == t.len + t.pad

\* is_expired with the optional hard expiry ignored
is_expired_window_only(o, now) == now > o.pickup_end

\* is_expired that counts the deadline instant itself as expired
is_expired_at_deadline(o, now) ==
    IF o.expires_at # None THEN now >= o.expires_at ELSE now >= o.pickup_end

\* Offer.is_expired
is_expired(o, now) ==
    IF o.expires_at # None THEN now > o.expires_at ELSE now > o.pickup_end

\* Offer._touch
touch(o, now) == [o EXCEPT !.updated_at = now]

\* Offer._validate: "ok" or the error it raises (first violated rule)
validate(o) ==
    IF len(o.title) = 0 \/ len(strip(o.title)) < MinTitle THEN "ValidationError"
    ELSE IF len(o.title) > MaxTitle THEN "ValidationError"
    ELSE IF o.quantity_total <= 0 THEN "ValidationError"
    ELSE IF ~(0 <= o.quantity_available /\ o.quantity_available <= o.quantity_total)
        THEN "ValidationError"
    ELSE IF o.pickup_end <= o.pickup_start THEN "ValidationError"
    ELSE IF o.expires_at # None /\ o.expires_at < o.pickup_start THEN "ValidationError"
    ELSE IF o.price.amount <= 0 THEN "ValidationError"
    ELSE IF o.original_price.amount <= 0 THEN "ValidationError"
    ELSE IF o.price.currency # o.original_price.currency THEN "ValidationError"
    ELSE IF o.price.amount > o.original_price.amount THEN "ValidationError"
    ELSE "ok"

\* the result of a domain call: the object as the call leaves it, and how it ended
Result(o, e) == [offer |-> o, err |-> e]

\* Offer.create without the closing _validate
Offer_create_unvalidated(place_id, title, price, original_price, quantity_total, pickup_start, pickup_end, now) ==
    LET o == [place_id |-> place_id,
              title |-> strip(title),
              price |-> price,
              original_price |-> original_price,
              quantity_total |-> quantity_total,
              quantity_available |-> quantity_total,
              pickup_start |-> pickup_start,
              pickup_end |-> pickup_end,
              status |-> "draft",
              updated_at |-> now,
              expires_at |-> None]
    IN  IF o.price.currency # o.original_price.currency
            THEN Result(NoOffer, "ValidationError")
        ELSE Result(o, "ok")

\* Offer.create (currency_must_match = True); created_at = updated_at = now
Offer_create(place_id, title, price, original_price, quantity_total, pickup_start, pickup_end, now) ==
    LET o == [place_id |-> place_id,
              title |-> strip(title),
              price |-> price,
              original_price |-> original_price,
              quantity_total |-> quantity_total,
              quantity_available |-> quantity_total,
              pickup_start |-> pickup_start,
              pickup_end |-> pickup_end,
              status |-> "draft",
              updated_at |-> now,
              expires_at |-> None]
    IN  IF o.price.currency # o.original_price.currency
            THEN Result(NoOffer, "ValidationError")
        ELSE IF validate(o) # "ok" THEN Result(NoOffer, validate(o))
        ELSE Result(o, "ok")

\* activate that refuses cancelled offers only
activate_from_expired(o, now) ==
    IF validate(o) # "ok" THEN Result(o, validate(o))
    ELSE IF o.status \in {"cancelled"} THEN Result(o, "NotAvailableError")
    ELSE Result(touch([o EXCEPT !.status = "active"], now), "ok")

\* activate that restores the whole stock
activate_restocks(o, now) ==
    IF validate(o) # "ok" THEN Result(o, validate(o))
    ELSE IF o.status \in {"cancelled", "expired"} THEN Result(o, "NotAvailableError")
    ELSE Result(touch([o EXCEPT !.status = "active",
                                !.quantity_available = o.quantity_total], now), "ok")

\* Offer.activate
activate(o, now) ==
    IF validate(o) # "ok" THEN Result(o, validate(o))
    ELSE IF o.status \in {"cancelled", "expired"} THEN Result(o, "NotAvailableError")
    ELSE Result(touch([o EXCEPT !.status = "active"], now), "ok")

\* pause that does not look at the current status
pause_from_any(o, now) == Result(touch([o EXCEPT !.status = "paused"], now), "ok")

\* Offer.pause
pause(o, now) ==
    IF o.status = "active"
        THEN Result(touch([o EXCEPT !.status = "paused"], now), "ok")
        ELSE Result(o, "ok")

\* Offer.cancel
cancel(o, now) == Result(touch([o EXCEPT !.status = "cancelled"], now), "ok")

\* refresh_time_status that expires active offers only
refresh_active_only(o, now) ==
    IF o.status = "active" /\ is_expired(o, now)
        THEN touch([o EXCEPT !.status = "expired"], now)
        ELSE o

\* Offer.refresh_time_status (returns the object; it never raises)
refresh_time_status(o, now) ==
    IF o.status \notin {"cancelled", "sold_out"} /\ is_expired(o, now)
        THEN touch([o EXCEPT !.status = "expired"], now)
        ELSE o

\* Offer.can_reserve
can_reserve(o, qty, now) ==
    IF qty <= 0 THEN FALSE
    ELSE IF o.status # "active" THEN FALSE
    ELSE IF is_expired(o, now) THEN FALSE
    ELSE IF now > o.pickup_end THEN FALSE
    ELSE o.quantity_available >= qty

\* reserve that never marks the offer sold out
reserve_keeps_active(o, qty, now) ==
    LET r == refresh_time_status(o, now)
    IN  IF qty <= 0 THEN Result(r, "ValidationError")
        ELSE IF r.status # "active" THEN Result(r, "NotAvailableError")
        ELSE IF is_expired(r, now) THEN Result(r, "NotAvailableError")
        ELSE IF r.quantity_available < qty THEN Result(r, "InsufficientQuantityError")
        ELSE Result(touch([r EXCEPT !.quantity_available = @ - qty], now), "ok")

\* reserve that touches updated_at before it checks the quantity
reserve_touches_first(o, qty, now) ==
    LET r == refresh_time_status(o, now)
        left == r.quantity_available - qty
    IN  IF qty <= 0 THEN Result(r, "ValidationError")
        ELSE IF r.status # "active" THEN Result(r, "NotAvailableError")
        ELSE IF is_expired(r, now) THEN Result(r, "NotAvailableError")
        ELSE IF r.quantity_available < qty
            THEN Result(touch(r, now), "InsufficientQuantityError")
        ELSE Result(touch([r EXCEPT !.quantity_available = left,
                                    !.status = IF left = 0 THEN "sold_out" ELSE @],
                          now), "ok")

\* reserve that checks the status before the quantity asked for
reserve_status_first(o, qty, now) ==
    LET r == refresh_time_status(o, now)
        left == r.quantity_available - qty
    IN  IF r.status # "active" THEN Result(r, "NotAvailableError")
        ELSE IF is_expired(r, now) THEN Result(r, "NotAvailableError")
        ELSE IF qty <= 0 THEN Result(r, "ValidationError")
        ELSE IF r.quantity_available < qty THEN Result(r, "InsufficientQuantityError")
        ELSE Result(touch([r EXCEPT !.quantity_available = left,
                                    !.status = IF left = 0 THEN "sold_out" ELSE @],
                          now), "ok")

\* Offer.reserve: the refresh is kept when a later check raises
reserve(o, qty, now) ==
    LET r == refresh_time_status(o, now)
        left == r.quantity_available - qty
    IN  IF qty <= 0 THEN Result(r, "ValidationError")
        ELSE IF r.status # "active" THEN Result(r, "NotAvailableError")
        ELSE IF is_expired(r, now) THEN Result(r, "NotAvailableError")
        ELSE IF r.quantity_available < qty THEN Result(r, "InsufficientQuantityError")
        ELSE Result(touch([r EXCEPT !.quantity_available = left,
                                    !.status = IF left = 0 THEN "sold_out" ELSE @],
                          now), "ok")

Min(a, b) == IF a < b THEN a ELSE b

\* release without the cap at quantity_total
release_uncapped(o, qty, now) ==
    LET back == o.quantity_available + qty
    IN  IF qty <= 0 THEN Result(o, "ValidationError")
        ELSE IF o.status \in {"cancelled", "expired"} THEN Result(o, "NotAvailableError")
        ELSE Result(touch([o EXCEPT !.quantity_available = back,
                                    !.status = IF @ = "sold_out" /\ back > 0
                                               THEN "active" ELSE @],
                          now), "ok")

\* release that leaves a sold_out offer sold_out
release_stays_sold_out(o, qty, now) ==
    LET back == Min(o.quantity_total, o.quantity_available + qty)
    IN  IF qty <= 0 THEN Result(o, "ValidationError")
        ELSE IF o.status \in {"cancelled", "expired"} THEN Result(o, "NotAvailableError")
        ELSE Result(touch([o EXCEPT !.quantity_available = back], now), "ok")

\* release without the check of the terminal statuses
release_into_terminal(o, qty, now) ==
    LET back == Min(o.quantity_total, o.quantity_available + qty)
    IN  IF qty <= 0 THEN Result(o, "ValidationError")
        ELSE Result(touch([o EXCEPT !.quantity_available = back,
                                    !.status = IF @ = "sold_out" /\ back > 0
                                               THEN "active" ELSE @],
                          now), "ok")

\* release that makes any offer with stock active again
release_reactivates(o, qty, now) ==
    LET back == Min(o.quantity_total, o.quantity_available + qty)
    IN  IF qty <= 0 THEN Result(o, "ValidationError")
        ELSE IF o.status \in {"cancelled", "expired"} THEN Result(o, "NotAvailableError")
        ELSE Result(touch([o EXCEPT !.quantity_available = back,
                                    !.status = IF back > 0 THEN "active" ELSE @],
                          now), "ok")

\* release that checks the status before the quantity given back
release_status_first(o, qty, now) ==
    LET back == Min(o.quantity_total, o.quantity_available + qty)
    IN  IF o.status \in {"cancelled", "expired"} THEN Result(o, "NotAvailableError")
        ELSE IF qty <= 0 THEN Result(o, "ValidationError")
        ELSE Result(touch([o EXCEPT !.quantity_available = back,
                                    !.status = IF @ = "sold_out" /\ back > 0
                                               THEN "active" ELSE @],
                          now), "ok")

\* Offer.release
release(o, qty, now) ==
    LET back == Min(o.quantity_total, o.quantity_available + qty)
    IN  IF qty <= 0 THEN Result(o, "ValidationError")
        ELSE IF o.status \in {"cancelled", "expired"} THEN Result(o, "NotAvailableError")
        ELSE Result(touch([o EXCEPT !.quantity_available = back,
                                    !.status = IF @ = "sold_out" /\ back > 0
                                               THEN "active" ELSE @],
                          now), "ok")

\* Decimal.quantize(Decimal("1"), ROUND_HALF_UP) of the ratio n / d, n >= 0, d > 0
round_half_up(n, d) == (2 * n + d) \div (2 * d)

\* discount_percent that drops the fraction
discount_percent_floor(o) ==
    IF o.original_price.amount = 0 THEN 0
    ELSE IF o.price.amount >= o.original_price.amount THEN 0
    ELSE (100 * (o.original_price.amount - o.price.amount)) \div o.original_price.amount

\* Offer.discount_percent: (1 - price / original_price) * 100 rounded to an
\* integer; the 28-digit Decimal quotient is far finer than the distance of a
\* ratio of two numeric(12,2) amounts from a half, so the rounding is that of
\* the exact ratio
discount_percent(o) ==
    IF o.original_price.amount = 0 THEN 0
    ELSE IF o.price.amount >= o.original_price.amount THEN 0
    ELSE round_half_up(100 * (o.original_price.amount - o.price.amount),
                       o.original_price.amount)

\* ------------------------------------------------------- request payloads
\* OfferCreate as the schema lets it through (amounts > 0 with 2 decimals,
\* quantity_total > 0, upper-case 3-letter currencies); amounts in thousandths
CreateInputs ==
    [title : {Title(MinTitle, 0)},
     price_amount : {10, 20, 30},
     price_currency : {"RUB"},
     original_price_amount : {20},
     original_price_currency : {"RUB", "USD"},
     quantity_total : 1..MaxQty,
     pickup_start : {1},
     pickup_end : {1, 2},
     expires_at : {None, 0, 1, 3}]

\* OfferUpdate: a partial update; an absent field is None ("None" for status)
NoUpdate ==
    [title |-> NoTitle,
     price_amount |-> None, original_price_amount |-> None, quantity_total |-> None,
     pickup_start |-> None, pickup_end |-> None, status |-> "None"]

UpdateStatuses == {"None", "active", "paused", "cancelled"}

\* the payloads explored: a status alone, quantity_total with any status, or
\* one other field (the title one is blank: three spaces pass the schema's
\* min_length and fail _validate)
UpdateInputs ==
    {[NoUpdate EXCEPT !.status = s] : s \in UpdateStatuses}
    \cup {[NoUpdate EXCEPT !.quantity_total = q, !.status = s] :
              q \in 1..MaxQty, s \in UpdateStatuses}
    \cup {[NoUpdate EXCEPT !.title = t] : t \in {Title(0, MinTitle)}}
    \cup {[NoUpdate EXCEPT !.price_amount = a] : a \in {10, 30}}
    \cup {[NoUpdate EXCEPT !.original_price_amount = a] : a \in {20}}
    \cup {[NoUpdate EXCEPT !.pickup_start = t] : t \in {2}}
    \cup {[NoUpdate EXCEPT !.pickup_end = t] : t \in {3}}

\* the payloads explored for a caller that does not own the offer
OtherPlaceInputs == {[NoUpdate EXCEPT !.status = s] : s \in {"active", "cancelled"}}

\* quantities a caller may pass to reserve / release
Qtys == 0..(MaxQty + 1)

\* ------------------------------------------------- OfferService, per call
\* OfferService.create_offer up to the save: Offer.create, then expires_at
create_offer(place_id, data, now) ==
    LET r == Offer_create(place_id, data.title,
                          Money(data.price_amount, data.price_currency),
                          Money(data.original_price_amount, data.original_price_currency),
                          data.quantity_total, data.pickup_start, data.pickup_end, now)
    IN  IF data.pickup_start < now THEN Result(NoOffer, "ValidationError")
        ELSE IF r.err # "ok" THEN r
        ELSE IF data.expires_at # None
            THEN Result([r.offer EXCEPT !.expires_at = data.expires_at], "ok")
        ELSE r

\* update_offer without the closing _validate
update_offer_unvalidated(o, place_id, data, now) ==
    IF o = NoOffer THEN Result(o, "NotAvailableError")
    ELSE IF o.place_id # place_id THEN Result(o, "NotAvailableError")
    ELSE IF o.status \in {"cancelled", "expired"} THEN Result(o, "NotAvailableError")
    ELSE
    LET o0 == IF data.title # NoTitle THEN [o EXCEPT !.title = data.title] ELSE o
        o1 == IF data.price_amount # None
                THEN [o0 EXCEPT !.price = Money(data.price_amount, o0.price.currency)]
                ELSE o0
        o2 == IF data.original_price_amount # None
                THEN [o1 EXCEPT !.original_price =
                          Money(data.original_price_amount, o1.original_price.currency)]
                ELSE o1
        reserved == o2.quantity_total - o2.quantity_available
        o3 == IF data.quantity_total # None
                THEN [o2 EXCEPT !.quantity_available = data.quantity_total - reserved,
                                !.quantity_total = data.quantity_total]
                ELSE o2
        o4 == IF data.pickup_start # None
                THEN [o3 EXCEPT !.pickup_start = data.pickup_start] ELSE o3
        o5 == IF data.pickup_end # None
                THEN [o4 EXCEPT !.pickup_end = data.pickup_end] ELSE o4
        s  == IF data.status = "active" THEN activate(o5, now)
              ELSE IF data.status = "paused" THEN pause(o5, now)
              ELSE IF data.status = "cancelled" THEN cancel(o5, now)
              ELSE Result(o5, "ok")
    IN  IF data.quantity_total # None /\ data.quantity_total < reserved
            THEN Result(o, "ValidationError")
        ELSE IF s.err # "ok" THEN Result(o, s.err)
        ELSE Result(touch(s.offer, now), "ok")

\* update_offer that puts the whole new quantity_total on offer again
update_offer_restocks(o, place_id, data, now) ==
    IF o = NoOffer THEN Result(o, "NotAvailableError")
    ELSE IF o.place_id # place_id THEN Result(o, "NotAvailableError")
    ELSE IF o.status \in {"cancelled", "expired"} THEN Result(o, "NotAvailableError")
    ELSE
    LET o0 == IF data.title # NoTitle THEN [o EXCEPT !.title = data.title] ELSE o
        o1 == IF data.price_amount # None
                THEN [o0 EXCEPT !.price = Money(data.price_amount, o0.price.currency)]
                ELSE o0
        o2 == IF data.original_price_amount # None
                THEN [o1 EXCEPT !.original_price =
                          Money(data.original_price_amount, o1.original_price.currency)]
                ELSE o1
        reserved == o2.quantity_total - o2.quantity_available
        o3 == IF data.quantity_total # None
                THEN [o2 EXCEPT !.quantity_available = data.quantity_total,
                                !.quantity_total = data.quantity_total]
                ELSE o2
        o4 == IF data.pickup_start # None
                THEN [o3 EXCEPT !.pickup_start = data.pickup_start] ELSE o3
        o5 == IF data.pickup_end # None
                THEN [o4 EXCEPT !.pickup_end = data.pickup_end] ELSE o4
        s  == IF data.status = "active" THEN activate(o5, now)
              ELSE IF data.status = "paused" THEN pause(o5, now)
              ELSE IF data.status = "cancelled" THEN cancel(o5, now)
              ELSE Result(o5, "ok")
    IN  IF data.quantity_total # None /\ data.quantity_total < reserved
            THEN Result(o, "ValidationError")
        ELSE IF s.err # "ok" THEN Result(o, s.err)
        ELSE IF validate(s.offer) # "ok" THEN Result(o, validate(s.offer))
        ELSE Result(touch(s.offer, now), "ok")

\* update_offer that hands the offer to the place of the caller
update_offer_takes_over(o, place_id, data, now) ==
    IF o = NoOffer THEN Result(o, "NotAvailableError")
    ELSE IF o.status \in {"cancelled", "expired"} THEN Result(o, "NotAvailableError")
    ELSE
    LET o0 == IF data.title # NoTitle THEN [o EXCEPT !.title = data.title] ELSE o
        o1 == IF data.price_amount # None
                THEN [o0 EXCEPT !.price = Money(data.price_amount, o0.price.currency)]
                ELSE o0
        o2 == IF data.original_price_amount # None
                THEN [o1 EXCEPT !.original_price =
                          Money(data.original_price_amount, o1.original_price.currency)]
                ELSE o1
        reserved == o2.quantity_total - o2.quantity_available
        o3 == IF data.quantity_total # None
                THEN [o2 EXCEPT !.quantity_available = data.quantity_total - reserved,
                                !.quantity_total = data.quantity_total]
                ELSE o2
        o4 == IF data.pickup_start # None
                THEN [o3 EXCEPT !.pickup_start = data.pickup_start] ELSE o3
        o5 == IF data.pickup_end # None
                THEN [o4 EXCEPT !.pickup_end = data.pickup_end] ELSE o4
        s  == IF data.status = "active" THEN activate(o5, now)
              ELSE IF data.status = "paused" THEN pause(o5, now)
              ELSE IF data.status = "cancelled" THEN cancel(o5, now)
              ELSE Result(o5, "ok")
    IN  IF data.quantity_total # None /\ data.quantity_total < reserved
            THEN Result(o, "ValidationError")
        ELSE IF s.err # "ok" THEN Result(o, s.err)
        ELSE IF validate(s.offer) # "ok" THEN Result(o, validate(s.offer))
        ELSE Result(touch([s.offer EXCEPT !.place_id = place_id], now), "ok")

\* OfferService.update_offer between the load and the save, on the loaded
\* copy o; when it raises nothing is saved and the result carries o as loaded
update_offer(o, place_id, data, now) ==
    IF o = NoOffer THEN Result(o, "NotAvailableError")
    ELSE IF o.place_id # place_id THEN Result(o, "NotAvailableError")
    ELSE IF o.status \in {"cancelled", "expired"} THEN Result(o, "NotAvailableError")
    ELSE
    LET o0 == IF data.title # NoTitle THEN [o EXCEPT !.title = data.title] ELSE o
        o1 == IF data.price_amount # None
                THEN [o0 EXCEPT !.price = Money(data.price_amount, o0.price.currency)]
                ELSE o0
        o2 == IF data.original_price_amount # None
                THEN [o1 EXCEPT !.original_price =
                          Money(data.original_price_amount, o1.original_price.currency)]
                ELSE o1
        reserved == o2.quantity_total - o2.quantity_available
        o3 == IF data.quantity_total # None
                THEN [o2 EXCEPT !.quantity_available = data.quantity_total - reserved,
                                !.quantity_total = data.quantity_total]
                ELSE o2
        o4 == IF data.pickup_start # None
                THEN [o3 EXCEPT !.pickup_start = data.pickup_start] ELSE o3
        o5 == IF data.pickup_end # None
                THEN [o4 EXCEPT !.pickup_end = data.pickup_end] ELSE o4
        s  == IF data.status = "active" THEN activate(o5, now)
              ELSE IF data.status = "paused" THEN pause(o5, now)
              ELSE IF data.status = "cancelled" THEN cancel(o5, now)
              ELSE Result(o5, "ok")
    IN  IF data.quantity_total # None /\ data.quantity_total < reserved
            THEN Result(o, "ValidationError")
        ELSE IF s.err # "ok" THEN Result(o, s.err)
        ELSE IF validate(s.offer) # "ok" THEN Result(o, validate(s.offer))
        ELSE Result(touch(s.offer, now), "ok")

\* delete_offer without the check of the reserved quantity
delete_offer_unchecked(o, place_id) ==
    IF o = NoOffer THEN "False"
    ELSE IF o.place_id # place_id THEN "NotAvailableError"
    ELSE "delete"

\* delete_offer that lets any partner delete
delete_offer_any_place(o, place_id) ==
    IF o = NoOffer THEN "False"
    ELSE IF o.quantity_total - o.quantity_available > 0 THEN "ValidationError"
    ELSE "delete"

\* OfferService.delete_offer between the load and repo.delete, on the loaded
\* copy o: what it returns or raises, or "delete" when it goes on to repo.delete
delete_offer(o, place_id) ==
    IF o = NoOffer THEN "False"
    ELSE IF o.place_id # place_id THEN "NotAvailableError"
    ELSE IF o.quantity_total - o.quantity_available > 0 THEN "ValidationError"
    ELSE "delete"

\* ------------------------------------------------------------ auth service
\* register: VerificationToken.create(domain_user.id, validity_hours=24)
validity_hours == 24

\* no row in verification_tokens / users
NoToken == [token |-> "none"]
NoUser == [id |-> "none"]

\* the token strings a request may carry: the one issued and one never issued
TokenStrs == {"t1", "t0"}

\* VerificationToken.create: expires_at = now + validity_hours (in this
\* service the clock counts half days, 12 hours a tick)
VerificationToken_create(user_id, now) ==
    [token |-> "t1", user_id |-> user_id, expires_at |-> now + validity_hours \div 12,
     used |-> FALSE]

\* VerificationTokenRepository.get_by_token
get_by_token(tokens, token_str) ==
    IF tokens # NoToken /\ tokens.token = token_str THEN tokens ELSE NoToken

\* verify_email's checks on the token row it loaded: "ok" or what it raises
verify_email_check(token_orm, now) ==
    IF token_orm = NoToken THEN "VerificationFailed"
    ELSE IF token_orm.expires_at < now THEN "VerificationFailed"
    ELSE IF token_orm.used THEN "VerificationFailed"
    ELSE "ok"

\* a session outside a request; inside one: the token string it was given,
\* the token row it loaded, and once done how the request ended
IdleVerify == [pc |-> "idle", token_str |-> "none", token_orm |-> NoToken, result |-> "none"]

\* UserRepository.update(user_id, is_verified=True, updated_at=now)
user_repo_update(user, now) == [user EXCEPT !.is_verified = TRUE, !.updated_at = now]

\* ------------------------------------------------------------------ state
VARIABLES
    clock,        \* utcnow()
    offer,        \* SpecOffer: the Offer aggregate, NoOffer before Offer.create
    last,         \* SpecOffer: the last call on offer (history)
    row,          \* Spec: the committed OfferORM row of the offer id, or NoOffer
    req,          \* Spec: per session, the request it is handling
    ghost,        \* Spec: history (requests begun, quantity reserved with success)
    calc,         \* SpecValue: the last pure call, its arguments and its result
    verification_tokens,  \* SpecAuth: the committed row of the token issued, or NoToken
    users,        \* SpecAuth: the committed UserORM row of the user, or NoUser
    verify,       \* SpecAuth: per session, the verify_email request it is handling
    verified      \* SpecAuth: history (requests begun, requests that succeeded)

vars == <<clock, offer, last, row, req, ghost, calc, verification_tokens, users, verify, verified>>
authVars == <<verification_tokens, users, verify, verified>>
offerVars == <<offer, last>>
serviceVars == <<row, req, ghost>>

\* the record of a call: what was called, with which qty, how it ended; for a
\* reserve that succeeded, the status and quantity_available it started from;
\* follows is the qty of the successful reserve that was the call before (or 0);
\* streak counts (up to 2) the activate calls in a row, this one included, that
\* each found the offer already active; pre_price is the price amount a
\* successful update_offer replaced by another one (else None); on_deadline
\* tells that a refresh_time_status was called at the very instant of the
\* deadline (expires_at if set, else pickup_end)
Call(op, qty, pre, err, before) ==
    [op |-> op, qty |-> qty, err |-> err,
     pre_status |-> IF op = "reserve" /\ err = "ok" THEN pre.status ELSE "none",
     pre_available |-> IF op = "reserve" /\ err = "ok"
                         THEN pre.quantity_available ELSE None,
     follows |-> IF before.op = "reserve" /\ before.err = "ok" THEN before.qty ELSE 0,
     streak |-> IF op = "activate" /\ err = "ok" /\ pre.status = "active"
                  THEN (IF before.streak >= 1 THEN 2 ELSE 1) ELSE 0,
     pre_price |-> None,
     on_deadline |-> /\ op = "refresh"
                     /\ clock = (IF pre.expires_at # None THEN pre.expires_at
                                                           ELSE pre.pickup_end)]

NoCall == [op |-> "none", qty |-> 0, err |-> "ok", pre_status |-> "none",
           pre_available |-> None, follows |-> 0, streak |-> 0, pre_price |-> None,
           on_deadline |-> FALSE]

\* a session between requests; the fields of a request in flight: its op, the
\* now it read, the copy it loaded (seen) and whether a commit of another
\* session has landed since that load (stale); of a finished one (history):
\* what the caller got (result, ret), what Offer.reserve raised, and for a
\* reserve that committed its qty, the quantity_available it had loaded and
\* whether it wrote on a stale load; for an update_offer or delete_offer, the
\* place_id of the caller, and for an update_offer the quantity_total it asked
\* for (qty, 0 if none)
IdleReq == [pc |-> "idle", op |-> "none", now |-> 0, seen |-> NoOffer, stale |-> FALSE,
            qty |-> 0, available |-> None, wrote_stale |-> FALSE,
            raised |-> "none", result |-> "none", ret |-> NoOffer, place |-> "none"]

\* no pure call yet
NoCalc == [op |-> "none", x |-> NoMoney, y |-> NoMoney, out |-> NoMoney, err |-> "ok"]

Init ==
    /\ clock = 0
    /\ offer = NoOffer
    /\ last = NoCall
    /\ row = NoRow
    /\ req = [p \in Procs |-> IdleReq]
    /\ ghost = [created |-> FALSE, nreq |-> 0, reserved_ok |-> 0,
                stale_update |-> FALSE]
    /\ calc = NoCalc
    /\ verification_tokens = NoToken
    /\ users = NoUser
    /\ verify = [p \in Procs |-> IdleVerify]
    /\ verified = [nreq |-> 0, succeeded |-> 0]

\* time passes
Tick ==
    /\ clock < MaxTime
    /\ clock' = clock + 1
    /\ UNCHANGED <<offerVars, serviceVars, calc, authVars>>

\* ------------------------------------------------------ SpecOffer actions
\* create_offer's construction: Offer.create, then the expires_at assignment
OfferCreate ==
    /\ offer = NoOffer
    /\ \E place \in Places, data \in CreateInputs :
         LET r == create_offer(place, data, clock)
         IN  /\ offer' = r.offer
             /\ last' = Call("create", 0, offer, r.err, last)
    /\ UNCHANGED <<clock, serviceVars, calc, authVars>>

Apply(op, qty, r) ==
    /\ offer' = r.offer
    /\ last' = Call(op, qty, offer, r.err, last)
    /\ UNCHANGED <<clock, serviceVars, calc, authVars>>

OfferActivate == offer # NoOffer /\ Apply("activate", 0, activate(offer, clock))

OfferPause == offer # NoOffer /\ Apply("pause", 0, pause(offer, clock))

OfferCancel == offer # NoOffer /\ Apply("cancel", 0, cancel(offer, clock))

OfferRefresh ==
    offer # NoOffer /\ Apply("refresh", 0, Result(refresh_time_status(offer, clock), "ok"))

OfferReserve ==
    offer # NoOffer /\ \E qty \in Qtys : Apply("reserve", qty, reserve(offer, qty, clock))

OfferRelease ==
    offer # NoOffer /\ \E qty \in Qtys : Apply("release", qty, release(offer, qty, clock))

\* update_offer applied to the aggregate (load, body, save in one step)
OfferUpdate ==
    /\ offer # NoOffer
    /\ \E place \in Places :
         \E data \in (IF place = offer.place_id THEN UpdateInputs ELSE OtherPlaceInputs) :
           LET r == update_offer(offer, place, data, clock)
           IN  /\ offer' = r.offer
               /\ last' = [Call("update", 0, offer, r.err, last) EXCEPT
                      !.pre_price = IF r.err = "ok" /\ r.offer.price # offer.price
                                      THEN offer.price.amount ELSE None]
    /\ UNCHANGED <<clock, serviceVars, calc, authVars>>

NextOffer ==
    \/ Tick
    \/ OfferCreate
    \/ OfferActivate
    \/ OfferPause
    \/ OfferCancel
    \/ OfferRefresh
    \/ OfferReserve
    \/ OfferRelease
    \/ OfferUpdate

SpecOffer == Init /\ [][NextOffer]_vars

\* ----------------------------------------------------------- OffersRepo
\* _to_domain: the Offer built from the columns of a row
to_domain(r) ==
    [place_id |-> r.place_id,
     title |-> r.title,
     price |-> Money(ColumnDecimal(r.price_amount), r.price_currency),
     original_price |-> Money(ColumnDecimal(r.original_price_amount),
                              r.original_price_currency),
     quantity_total |-> r.quantity_total,
     quantity_available |-> r.quantity_available,
     pickup_start |-> r.pickup_start,
     pickup_end |-> r.pickup_end,
     status |-> r.status,
     updated_at |-> r.updated_at,
     expires_at |-> r.expires_at]

\* _apply_domain: every column is assigned from the domain object
apply_domain(d) ==
    [place_id |-> d.place_id,
     title |-> d.title,
     price_amount |-> d.price.amount,
     price_currency |-> d.price.currency,
     original_price_amount |-> d.original_price.amount,
     original_price_currency |-> d.original_price.currency,
     quantity_total |-> d.quantity_total,
     quantity_available |-> d.quantity_available,
     pickup_start |-> d.pickup_start,
     pickup_end |-> d.pickup_end,
     expires_at |-> d.expires_at,
     status |-> d.status,
     updated_at |-> d.updated_at]

\* OffersRepo.get
repo_get(r) == IF r = NoRow THEN NoOffer ELSE to_domain(r)

\* ----------------------------------------------------------- Spec actions
\* the payloads explored by the sessions
ServiceCreateInputs ==
    {d \in CreateInputs :
        /\ d.price_amount = 10 /\ d.original_price_currency = "RUB"
        /\ d.quantity_total = MaxQty /\ d.pickup_end = 2 /\ d.expires_at \in {None, 0, 1}}

ServiceUpdateInputs ==
    {[NoUpdate EXCEPT !.status = s] : s \in {"active", "paused", "cancelled"}}
    \cup {[NoUpdate EXCEPT !.quantity_total = q] : q \in 1..MaxQty}

\* OfferReserve.quantity is > 0
ReserveQtys == 1..(MaxQty + 1)

\* a new request goes to the lowest session that is not inside a request
\* (sessions are interchangeable: one is made per request)
Free(p) ==
    /\ req[p].pc # "loaded"
    /\ \A q \in Procs : q < p => req[q].pc = "loaded"
    /\ ghost.nreq < MaxRequests

Started == [ghost EXCEPT !.nreq = @ + 1]

\* the record a session keeps of a finished request
Done(op, result) == [IdleReq EXCEPT !.pc = "done", !.op = op, !.result = result]

\* session p finishes with record d and without a commit
Finish(p, d) == req' = [req EXCEPT ![p] = d]

\* session p commits and finishes with record d: the copies the other
\* sessions hold are stale from now on
Commit(p, d) ==
    req' = [q \in Procs |->
              IF q = p THEN d
              ELSE IF req[q].pc = "loaded" THEN [req[q] EXCEPT !.stale = TRUE]
              ELSE req[q]]

\* what reaches the caller when Offer.reserve raises inside reserve_offer: the
\* except clause names InsufficientQuantityError, which services/offers.py
\* never imports, so matching the exception raises NameError instead
reserve_offer_reraise(err) == "NameError"

\* create_offer: no load, one save + commit
CreateOffer(p) ==
    /\ Free(p) /\ ~ghost.created
    /\ \E place \in Places, data \in ServiceCreateInputs :
         LET r == create_offer(place, data, clock)
         IN  IF r.err = "ok"
               THEN /\ row' = apply_domain(r.offer)
                    /\ Commit(p, Done("create", "ok"))
                    /\ ghost' = [Started EXCEPT !.created = TRUE]
               ELSE /\ Finish(p, Done("create", r.err))
                    /\ ghost' = Started
                    /\ UNCHANGED row
    /\ UNCHANGED <<clock, offerVars, calc, authVars>>

\* the load that opens reserve_offer, update_offer, delete_offer and get_offer;
\* only reserve_offer reads utcnow() before it
Load(p, op) ==
    /\ Free(p) /\ ghost.created
    /\ req' = [req EXCEPT ![p] =
          [IdleReq EXCEPT !.pc = "loaded", !.op = op,
                          !.now = IF op = "reserve" THEN clock ELSE 0,
                          !.seen = repo_get(row)]]
    /\ ghost' = Started
    /\ UNCHANGED <<clock, row, offerVars, calc, authVars>>

\* reserve_offer: now = utcnow(), then repo.get
ReserveLoad(p) == Load(p, "reserve")

\* reserve_offer after the load: Offer.reserve on the loaded copy, save, commit
ReserveSave(p) ==
    /\ req[p].pc = "loaded" /\ req[p].op = "reserve"
    /\ \E qty \in ReserveQtys :
         LET r == reserve(req[p].seen, qty, req[p].now)
         IN  IF req[p].seen = NoOffer
               THEN /\ Finish(p, Done("reserve", "NotAvailableError"))
                    /\ UNCHANGED <<row, ghost>>
             ELSE IF r.err # "ok"
               THEN /\ Finish(p, [Done("reserve", reserve_offer_reraise(r.err))
                                    EXCEPT !.raised = r.err, !.qty = qty])
                    /\ UNCHANGED <<row, ghost>>
             ELSE /\ row' = apply_domain(r.offer)
                  /\ Commit(p, [Done("reserve", "ok") EXCEPT
                          !.qty = qty,
                          !.available = req[p].seen.quantity_available,
                          !.wrote_stale = req[p].stale])
                  /\ ghost' = [ghost EXCEPT !.reserved_ok = @ + qty]
    /\ UNCHANGED <<clock, offerVars, calc, authVars>>

\* update_offer: repo.get
UpdateLoad(p) == Load(p, "update")

\* update_offer that saves the copy it holds before it raises
UpdateSave_saves_on_failure(p) ==
    /\ req[p].pc = "loaded" /\ req[p].op = "update"
    /\ \E place \in Places :
         \E data \in (IF req[p].seen # NoOffer /\ place = req[p].seen.place_id
                        THEN ServiceUpdateInputs ELSE OtherPlaceInputs) :
           LET r == update_offer(req[p].seen, place, data, clock)
               d == [Done("update", r.err) EXCEPT
                       !.place = place,
                       !.qty = IF data.quantity_total # None THEN data.quantity_total
                                                             ELSE 0]
           IN  IF r.err # "ok" /\ req[p].seen = NoOffer
                 THEN /\ Finish(p, d)
                      /\ UNCHANGED <<row, ghost>>
                 ELSE /\ row' = apply_domain(r.offer)
                      /\ Commit(p, d)
                      /\ ghost' = [ghost EXCEPT !.stale_update = @ \/ req[p].stale]
    /\ UNCHANGED <<clock, offerVars, calc, authVars>>

\* update_offer after the load: checks, now = utcnow(), changes, save, commit
UpdateSave(p) ==
    /\ req[p].pc = "loaded" /\ req[p].op = "update"
    /\ \E place \in Places :
         \E data \in (IF req[p].seen # NoOffer /\ place = req[p].seen.place_id
                        THEN ServiceUpdateInputs ELSE OtherPlaceInputs) :
           LET r == update_offer(req[p].seen, place, data, clock)
               d == [Done("update", r.err) EXCEPT
                       !.place = place,
                       !.qty = IF data.quantity_total # None THEN data.quantity_total
                                                             ELSE 0]
           IN  IF r.err # "ok"
                 THEN /\ Finish(p, d)
                      /\ UNCHANGED <<row, ghost>>
                 ELSE /\ row' = apply_domain(r.offer)
                      /\ Commit(p, d)
                      /\ ghost' = [ghost EXCEPT !.stale_update = @ \/ req[p].stale]
    /\ UNCHANGED <<clock, offerVars, calc, authVars>>

\* delete_offer: repo.get
DeleteLoad(p) == Load(p, "delete")

\* OffersRepo.delete: TRUE when db.get finds the row (which it then deletes)
repo_delete(r) == r # NoRow

\* delete_offer after the load: checks on the loaded copy, repo.delete, commit
DeleteSave(p) ==
    /\ req[p].pc = "loaded" /\ req[p].op = "delete"
    /\ \E place \in Places :
         LET d == delete_offer(req[p].seen, place)
         IN  IF d # "delete"
               THEN /\ Finish(p, [Done("delete", d) EXCEPT !.place = place])
                    /\ UNCHANGED row
             ELSE IF repo_delete(row)
               THEN /\ row' = NoRow
                    /\ Commit(p, [Done("delete", "True") EXCEPT !.place = place])
             ELSE /\ Finish(p, [Done("delete", "False") EXCEPT !.place = place])
                  /\ UNCHANGED row
    /\ UNCHANGED <<clock, ghost, offerVars, calc, authVars>>

\* get_offer: repo.get
GetLoad(p) == Load(p, "get")

\* get_offer after the load: now = utcnow(), refresh the copy, commit (the
\* session holds no change), return the copy
GetReturn(p) ==
    /\ req[p].pc = "loaded" /\ req[p].op = "get"
    /\ Finish(p, [Done("get", "ok") EXCEPT
          !.now = clock,
          !.seen = req[p].seen,
          !.ret = IF req[p].seen = NoOffer THEN NoOffer
                  ELSE refresh_time_status(req[p].seen, clock)])
    /\ UNCHANGED <<clock, row, ghost, offerVars, calc, authVars>>

Next ==
    \/ Tick
    \/ \E p \in Procs : CreateOffer(p)
    \/ \E p \in Procs : ReserveLoad(p)
    \/ \E p \in Procs : ReserveSave(p)
    \/ \E p \in Procs : UpdateLoad(p)
    \/ \E p \in Procs : UpdateSave(p)
    \/ \E p \in Procs : DeleteLoad(p)
    \/ \E p \in Procs : DeleteSave(p)
    \/ \E p \in Procs : GetLoad(p)
    \/ \E p \in Procs : GetReturn(p)

Spec == Init /\ [][Next]_vars

\* ------------------------------------------------------ SpecValue actions
\* the Decimal amounts (thousandths) handed to the Money constructor
Amounts == (0 - 11)..MaxAmount

\* the Money values the operators are applied to
Moneys == {Money(a, c) : a \in {0, 10, 20, MaxAmount}, c \in {"RUB", "usd"}}

\* Money(amount, currency)
MoneyNew ==
    /\ calc = NoCalc
    /\ \E amount \in Amounts, currency \in Currencies :
         LET r == Money_init(amount, currency)
         IN  calc' = [op |-> "Money", x |-> [amount |-> amount, currency |-> currency],
                      y |-> NoMoney, out |-> r.value, err |-> r.err]
    /\ UNCHANGED <<clock, offerVars, serviceVars, authVars>>

\* a + b
MoneyAdd ==
    /\ calc = NoCalc
    /\ \E a \in Moneys, b \in Moneys :
         LET r == Money_add(a, b)
         IN  calc' = [op |-> "add", x |-> a, y |-> b, out |-> r.value, err |-> r.err]
    /\ UNCHANGED <<clock, offerVars, serviceVars, authVars>>

\* a - b
MoneySub ==
    /\ calc = NoCalc
    /\ \E a \in Moneys, b \in Moneys :
         LET r == Money_sub(a, b)
         IN  calc' = [op |-> "sub", x |-> a, y |-> b, out |-> r.value, err |-> r.err]
    /\ UNCHANGED <<clock, offerVars, serviceVars, authVars>>

\* (a + b) - b, for the sum a + b just computed
MoneySubBack ==
    /\ calc.op = "add" /\ calc.err = "ok"
    /\ LET r == Money_sub(calc.out, calc.y)
       IN  calc' = [op |-> "sub_back", x |-> calc.x, y |-> calc.y,
                    out |-> r.value, err |-> r.err]
    /\ UNCHANGED <<clock, offerVars, serviceVars, authVars>>

\* the price amounts (hundredths) discount_percent is applied to
Cents == 0..MaxCents \cup {500, 1000}

\* offer.discount_percent(), for an offer with these two prices
DiscountPercent ==
    /\ calc = NoCalc
    /\ \E p \in Cents, q \in Cents :
         LET o == [price |-> [amount |-> p, currency |-> "RUB"],
                   original_price |-> [amount |-> q, currency |-> "RUB"]]
         IN  calc' = [op |-> "discount", x |-> o.price, y |-> o.original_price,
                      out |-> discount_percent(o), err |-> "ok"]
    /\ UNCHANGED <<clock, offerVars, serviceVars, authVars>>

\* the titles Offer.create is applied to: around both limits, bare and padded
Titles ==
    {Title(n, pad) : n \in {0, MinTitle - 1, MinTitle, MaxTitle, MaxTitle + 1},
                     pad \in {0, 1}}

\* the prices Offer.create is applied to
Prices == {Money(ColumnDecimal(c), cur) : c \in 0..2, cur \in {"RUB", "USD"}}

\* Offer.create(place_id, title, price, original_price, quantity_total,
\* pickup_start, pickup_end)
OfferCreateCall ==
    /\ calc = NoCalc
    /\ \E title \in Titles, price \in Prices, original_price \in Prices,
          quantity_total \in 0..MaxQty, pickup_start \in {1}, pickup_end \in 0..2 :
         LET r == Offer_create("p1", title, price, original_price, quantity_total,
                               pickup_start, pickup_end, clock)
         IN  calc' = [op |-> "create",
                      x |-> [title |-> title, price |-> price,
                             original_price |-> original_price,
                             quantity_total |-> quantity_total,
                             pickup_start |-> pickup_start, pickup_end |-> pickup_end],
                      y |-> NoMoney, out |-> r.offer, err |-> r.err]
    /\ UNCHANGED <<clock, offerVars, serviceVars, authVars>>

\* the stored offers list_offers is applied to (price, quantity_total and
\* pickup_start are the same in all of them)
ListedRow(status, pickup_end, expires_at) ==
    apply_domain([Offer_create("p1", Title(MinTitle, 0), Money(10, "RUB"), Money(20, "RUB"),
                               1, 0, pickup_end, 0).offer
                     EXCEPT !.status = status,
                            !.expires_at = expires_at,
                            !.quantity_available = IF status = "sold_out" THEN 0 ELSE 1])

ListedRows ==
    {ListedRow(s, e, x) : s \in {"active", "paused", "sold_out"}, e \in {1, 2},
                          x \in {None, 1, 3}}

\* the offers table: up to MaxRows rows, in storage order
Tables == UNION {[1..n -> ListedRows] : n \in 0..MaxRows}

Perms(n) == {f \in [1..n -> 1..n] : \A i, j \in 1..n : i # j => f[i] # f[j]}

\* ORDER BY pickup_end ASC: the orders the database may return the rows in
\* (rows with equal pickup_end come in any order)
order_by_pickup_end(t) ==
    {q \in {[i \in 1..Len(t) |-> t[f[i]]] : f \in Perms(Len(t))} :
        \A i \in 1..(Len(t) - 1) : q[i].pickup_end <= q[i + 1].pickup_end}

\* LIMIT limit OFFSET offset
limit_offset(q, limit, offset) == SubSeq(q, offset + 1, Min(Len(q), offset + limit))

\* OffersRepo.list_active: the lists it may return (now is not used)
list_active(t, now, limit, offset) ==
    {[i \in 1..Len(limit_offset(q, limit, offset)) |->
          to_domain(limit_offset(q, limit, offset)[i])] : q \in order_by_pickup_end(t)}

\* list_offers without the refresh of the listed copies
list_offers_unrefreshed(offers, now, active_only) ==
    LET Keep(o) == ~active_only \/ o.status = "active"
    IN  SelectSeq(offers, Keep)

\* OfferService.list_offers on the list that repo.list_active returned
list_offers(offers, now, active_only) ==
    LET refreshed == [i \in 1..Len(offers) |-> refresh_time_status(offers[i], now)]
        Keep(o) == ~active_only \/ o.status = "active"
    IN  SelectSeq(refreshed, Keep)

\* list_offers(limit, offset, active_only) at time now on table t
ListOffers ==
    /\ calc = NoCalc
    /\ \E t \in Tables, now \in Times, limit \in 1..2, offset \in 0..1,
          active_only \in BOOLEAN :
         \E offers \in list_active(t, now, limit, offset) :
           calc' = [op |-> "list",
                    x |-> [table |-> t, now |-> now, limit |-> limit, offset |-> offset,
                           active_only |-> active_only],
                    y |-> offers,
                    out |-> list_offers(offers, now, active_only),
                    err |-> "ok"]
    /\ UNCHANGED <<clock, offerVars, serviceVars, authVars>>

\* one call per behaviour: each function is applied to arguments it has not
\* seen, and only (a + b) - b continues from a result
NextValue ==
    \/ MoneyNew
    \/ OfferCreateCall
    \/ ListOffers
    \/ DiscountPercent
    \/ MoneyAdd
    \/ MoneySub
    \/ MoneySubBack

SpecValue == Init /\ [][NextValue]_vars

\* -------------------------------------------------------- SpecAuth actions
\* AuthService.register: the user row, then the token row (each saved and
\* committed; no request can present the token before it is stored)
Register ==
    /\ users = NoUser
    /\ users' = [id |-> "u1", is_verified |-> FALSE, updated_at |-> clock]
    /\ verification_tokens' = VerificationToken_create("u1", clock)
    /\ UNCHANGED <<clock, offerVars, serviceVars, calc, verify, verified>>

\* verify_email up to its last check: get_by_token, then expiry and used flag
\* of the row as loaded
VerifyCheck(p) ==
    /\ users # NoUser
    /\ verify[p].pc \in {"idle", "done"}
    /\ verified.nreq < MaxRequests
    /\ \E token_str \in TokenStrs :
         LET token_orm == get_by_token(verification_tokens, token_str)
             e == verify_email_check(token_orm, clock)
         IN  verify' = [verify EXCEPT ![p] =
                 IF e # "ok"
                   THEN [IdleVerify EXCEPT !.pc = "done", !.token_str = token_str,
                                           !.result = e]
                   ELSE [IdleVerify EXCEPT !.pc = "checked", !.token_str = token_str,
                                           !.token_orm = token_orm]]
    /\ verified' = [verified EXCEPT !.nreq = @ + 1]
    /\ UNCHANGED <<clock, offerVars, serviceVars, calc, verification_tokens, users>>

\* verify_email: user_repo.get_by_id, then user_repo.update and its commit
VerifyUser(p) ==
    /\ verify[p].pc = "checked"
    /\ IF users = NoUser \/ users.id # verify[p].token_orm.user_id
         THEN /\ verify' = [verify EXCEPT ![p].pc = "done", ![p].result = "UserNotFound"]
              /\ UNCHANGED users
         ELSE /\ users' = user_repo_update(users, clock)
              /\ verify' = [verify EXCEPT ![p].pc = "updated"]
    /\ UNCHANGED <<clock, offerVars, serviceVars, calc, verification_tokens, verified>>

\* verify_email: token_repo.mark_as_used and its commit, then the return
VerifyMarkUsed(p) ==
    /\ verify[p].pc = "updated"
    /\ verification_tokens' =
         IF get_by_token(verification_tokens, verify[p].token_str) = NoToken
           THEN verification_tokens
           ELSE [verification_tokens EXCEPT !.used = TRUE]
    /\ verify' = [verify EXCEPT ![p].pc = "done", ![p].result = "ok"]
    /\ verified' = [verified EXCEPT !.succeeded = @ + 1]
    /\ UNCHANGED <<clock, offerVars, serviceVars, calc, users>>

NextAuth ==
    \/ Tick
    \/ Register
    \/ \E p \in Procs : VerifyCheck(p)
    \/ \E p \in Procs : VerifyUser(p)
    \/ \E p \in Procs : VerifyMarkUsed(p)

SpecAuth == Init /\ [][NextAuth]_vars

\* ------------------------------------------------------------------ claims
\* the effective deadline of the glossary: expires_at if set, else pickup_end
EffectiveDeadline(o) == IF o.expires_at # None THEN o.expires_at ELSE o.pickup_end

\* a step of SpecOffer that is a call of op at time clock
CallStep(op) == clock' = clock /\ last'.op = op

\* session p has finished a reserve_offer that committed
Reserved(p) == req[p].pc = "done" /\ req[p].op = "reserve" /\ req[p].result = "ok"

\* C1: two reserve_offer requests that run concurrently on the same offer and
\* whose combined quantity exceeds the persisted quantity_available never both
\* succeed.
C1_NoDoubleSuccess ==
    \A p, q \in Procs :
        (/\ p # q /\ Reserved(p) /\ Reserved(q)
         /\ req[q].wrote_stale
         /\ req[p].available = req[q].available)
        => req[p].qty + req[q].qty <= req[p].available

\* C2: once every request has committed, the persisted quantity_available is
\* quantity_total minus the quantities of the reserve_offer calls that
\* succeeded (runs in which no update_offer wrote on a stale load).
C2_ReservationsAccounted ==
    (/\ \A p \in Procs : req[p].pc # "loaded"
     /\ row # NoRow
     /\ ~ghost.stale_update)
    => row.quantity_available = row.quantity_total - ghost.reserved_ok

\* C4: a reservation whose row changed between its load and its write does
\* not write over the newer row (it retries, or fails with ConflictError).
C4_NoWriteOverNewerRow ==
    \A p \in Procs : Reserved(p) => ~req[p].wrote_stale

\* C5: when Offer.reserve raises a domain error inside reserve_offer, the
\* caller receives that same error kind, and nothing is saved.
C5_DomainErrorSurfaces ==
    [][\A p \in Procs :
         (/\ req[p].pc = "loaded" /\ req'[p].pc = "done"
          /\ req'[p].op = "reserve" /\ req'[p].raised # "none")
         => (req'[p].result = req'[p].raised /\ row' = row)]_vars

\* C7: get_offer, called past the effective deadline of an offer stored as
\* draft, active or paused, returns the offer with status expired.
C7_GetOfferReportsExpired ==
    \A p \in Procs :
        (/\ req[p].pc = "done" /\ req[p].op = "get"
         /\ req[p].seen # NoOffer
         /\ req[p].seen.status \in {"draft", "active", "paused"}
         /\ req[p].now > EffectiveDeadline(req[p].seen))
        => req[p].ret.status = "expired"

\* get_offer has returned, past pickup_end, an offer stored as active with no
\* expires_at
C7_Witness ==
    \E p \in Procs :
        /\ req[p].pc = "done" /\ req[p].op = "get"
        /\ req[p].seen # NoOffer
        /\ req[p].seen.status = "active"
        /\ req[p].seen.expires_at = None
        /\ req[p].now > req[p].seen.pickup_end
        /\ req[p].ret.status = "expired"
        /\ row.status = "active"

\* C3: in every reachable state of an offer, whatever calls came before
\* (failed ones included), 0 <= quantity_available <= quantity_total and
\* quantity_total > 0.
C3_QuantityBounds ==
    offer # NoOffer =>
        /\ 0 <= offer.quantity_available
        /\ offer.quantity_available <= offer.quantity_total
        /\ offer.quantity_total > 0

\* an update_offer that changed quantity_total of an offer with a reservation
\* outstanding has just succeeded
C3_Witness ==
    /\ last.op = "update" /\ last.err = "ok"
    /\ offer.quantity_total = MaxQty
    /\ 0 < offer.quantity_available
    /\ offer.quantity_available < offer.quantity_total

\* C6: reserve(qty, now) with now past the effective deadline fails, whatever
\* the state and qty, and quantity_available is not decremented.
C6_NoReserveAfterDeadline ==
    [][(CallStep("reserve") /\ offer # NoOffer /\ clock > EffectiveDeadline(offer))
        => (last'.err # "ok" /\ offer'.quantity_available = offer.quantity_available)]_vars

\* a reserve with qty within the stock was refused after the deadline
C6_Witness ==
    /\ last.op = "reserve" /\ last.err = "NotAvailableError"
    /\ offer.status = "expired"
    /\ clock > EffectiveDeadline(offer)
    /\ 0 < last.qty /\ last.qty <= offer.quantity_available
    /\ offer.updated_at = clock

\* C8: on an active, unexpired offer, reserve(qty) with 0 < qty <=
\* quantity_available decrements quantity_available by exactly qty, and the
\* status afterwards is sold_out iff the new quantity_available is 0, else active.
C8_ReserveDecrements ==
    [][(/\ CallStep("reserve")
        /\ offer.status = "active"
        /\ clock <= EffectiveDeadline(offer)
        /\ 0 < last'.qty /\ last'.qty <= offer.quantity_available)
        => (/\ last'.err = "ok"
            /\ offer'.quantity_available = offer.quantity_available - last'.qty
            /\ offer'.status = IF offer'.quantity_available = 0
                                 THEN "sold_out" ELSE "active")]_vars

\* a reserve of the whole stock has left the offer sold out
C8_Witness ==
    /\ last.op = "reserve" /\ last.err = "ok"
    /\ last.pre_status = "active"
    /\ last.pre_available = last.qty
    /\ offer.status = "sold_out" /\ offer.quantity_available = 0

\* C9: on an active, unexpired offer, reserve(qty) with qty > quantity_available
\* fails with InsufficientQuantityError and leaves every field unchanged.
C9_InsufficientLeavesUnchanged ==
    [][(/\ CallStep("reserve")
        /\ offer.status = "active"
        /\ clock <= EffectiveDeadline(offer)
        /\ last'.qty > offer.quantity_available)
        => (last'.err = "InsufficientQuantityError" /\ offer' = offer)]_vars

\* reserve(quantity_available + 1) was refused on an active offer, later than
\* the last change of the offer
C9_Witness ==
    /\ last.op = "reserve" /\ last.err = "InsufficientQuantityError"
    /\ offer.status = "active"
    /\ last.qty = offer.quantity_available + 1
    /\ offer.updated_at < clock

\* C10: a successful reserve(q) on an active, unexpired offer immediately
\* followed by release(q) restores quantity_available and status to their
\* values before the reserve.
C10_ReserveReleaseRestores ==
    [][(/\ last.op = "reserve" /\ last.err = "ok"
        /\ last'.op = "release" /\ last'.qty = last.qty)
        => (/\ last'.err = "ok"
            /\ offer'.quantity_available = last.pre_available
            /\ offer'.status = last.pre_status)]_vars

\* release(q) right after the reserve(q) that sold the offer out
C10_Witness ==
    /\ last.op = "release" /\ last.err = "ok"
    /\ last.follows = last.qty
    /\ offer.quantity_available = last.qty
    /\ offer.status = "active"

\* C11: once the status is cancelled, no call (activate, pause, cancel,
\* refresh_time_status, reserve, release, update_offer) changes the status or
\* quantity_available again.
C11_CancelledIsTerminal ==
    [][(offer # NoOffer /\ offer.status = "cancelled")
        => (/\ offer'.status = "cancelled"
            /\ offer'.quantity_available = offer.quantity_available)]_vars

\* release(qty > 0) was refused on a cancelled offer that has stock reserved
C11_Witness ==
    /\ last.op = "release" /\ last.err = "NotAvailableError" /\ last.qty > 0
    /\ offer.status = "cancelled"
    /\ offer.quantity_available < offer.quantity_total

\* C12: in every reachable state of an offer, also right after an update_offer
\* that changes price_amount or original_price_amount, the stored offer has
\* price.currency = original_price.currency and
\* 0 < price.amount <= original_price.amount.
C12_PriceRules ==
    offer # NoOffer =>
        /\ offer.price.currency = offer.original_price.currency
        /\ 0 < offer.price.amount
        /\ offer.price.amount <= offer.original_price.amount

\* an update_offer that replaced the price by a lower one has just succeeded
C12_Witness ==
    /\ last.op = "update" /\ last.err = "ok"
    /\ last.pre_price # None
    /\ offer.price.amount < last.pre_price
    /\ offer.updated_at = clock

\* C13: every stored offer that has expires_at set has
\* expires_at >= pickup_start, as stored by create_offer and after any
\* update_offer.
C13_ExpiresNotBeforePickup ==
    (row # NoRow /\ row.expires_at # None) => row.expires_at >= row.pickup_start

\* C14: activate on a cancelled or expired offer fails with NotAvailableError
\* and leaves status and updated_at unchanged; on a draft, active or paused
\* offer it sets the status to active.
C14_ActivateByStatus ==
    [][(CallStep("activate") /\ offer # NoOffer)
        => (/\ offer.status \in {"cancelled", "expired"}
                => (/\ last'.err = "NotAvailableError"
                    /\ offer'.status = offer.status
                    /\ offer'.updated_at = offer.updated_at)
            /\ offer.status \in {"draft", "active", "paused"}
                => offer'.status = "active")]_vars

\* the offer without its updated_at
Untimed(o) == [o EXCEPT !.updated_at = 0]

\* C15: activate on an offer that is already active succeeds and leaves every
\* field except updated_at as it was; so two such calls in a row leave every
\* field except updated_at as before the first.
C15_ActivateIdempotent ==
    [][(CallStep("activate") /\ offer # NoOffer /\ offer.status = "active")
        => (last'.err = "ok" /\ Untimed(offer') = Untimed(offer))]_vars

\* two activate calls in a row on an active offer with part of its stock
\* reserved, the second later than the first
C15_Witness ==
    /\ last.op = "activate" /\ last.err = "ok" /\ last.streak = 2
    /\ offer.status = "active"
    /\ offer.quantity_available < offer.quantity_total
    /\ offer.updated_at = clock /\ clock > 0

\* C16: pause sets the status to paused only when it is active; in any other
\* status it leaves the whole offer, updated_at included, unchanged; it never
\* raises.
C16_PauseOnlyFromActive ==
    [][(CallStep("pause") /\ offer # NoOffer)
        => (/\ last'.err = "ok"
            /\ offer' = IF offer.status = "active"
                           THEN [offer EXCEPT !.status = "paused", !.updated_at = clock]
                           ELSE offer)]_vars

\* pause was called on a sold_out offer, later than its last change
C16_Witness ==
    /\ last.op = "pause" /\ last.err = "ok"
    /\ offer.status = "sold_out"
    /\ offer.updated_at < clock

\* C17: a paused offer becomes active only through an activation (activate, or
\* update_offer asked for status active): no reserve, release or
\* refresh_time_status takes it from paused to active.
C17_PausedNeedsActivate ==
    [][(offer # NoOffer /\ offer.status = "paused")
        => (/\ offer'.status = "active" => last'.op \in {"activate", "update"}
            /\ \A data \in UpdateInputs :
                  data.status # "active"
                  => update_offer(offer, offer.place_id, data, clock).offer.status
                       # "active")]_vars

\* release gave stock back to a paused offer that had none, and it is still
\* paused
C17_Witness ==
    /\ last.op = "release" /\ last.err = "ok"
    /\ offer.status = "paused"
    /\ offer.quantity_available = last.qty
    /\ offer.updated_at = clock

\* C18: refresh_time_status(now) sets the status to expired exactly when the
\* status is neither cancelled nor sold_out and now is strictly after the
\* effective deadline; in every other case, now equal to the deadline
\* included, it leaves the offer unchanged.
C18_RefreshExpiresPastDeadline ==
    [][(CallStep("refresh") /\ offer # NoOffer)
        => IF /\ offer.status \notin {"cancelled", "sold_out"}
              /\ clock > EffectiveDeadline(offer)
             THEN offer'.status = "expired"
             ELSE offer' = offer]_vars

\* refresh_time_status was called on an active offer at the very instant of
\* its expires_at, which is earlier than pickup_end
C18_Witness ==
    /\ last.op = "refresh" /\ last.on_deadline
    /\ offer.status = "active"
    /\ offer.expires_at # None /\ offer.expires_at < offer.pickup_end
    /\ clock = offer.expires_at

\* C19: release(qty, now) fails with ValidationError when qty <= 0, whatever
\* the status, and with NotAvailableError when the status is cancelled or
\* expired, the offer unchanged in both cases; otherwise quantity_available
\* becomes min(quantity_total, quantity_available + qty) and a sold_out offer
\* becomes active.
C19_ReleaseContract ==
    [][(CallStep("release") /\ offer # NoOffer)
        => IF last'.qty <= 0
             THEN last'.err = "ValidationError" /\ offer' = offer
           ELSE IF offer.status \in {"cancelled", "expired"}
             THEN last'.err = "NotAvailableError" /\ offer' = offer
           ELSE /\ last'.err = "ok"
                /\ offer'.quantity_available =
                      Min(offer.quantity_total, offer.quantity_available + last'.qty)
                /\ offer'.status = IF offer.status = "sold_out" THEN "active"
                                                                ELSE offer.status]_vars

\* release(0) was refused with ValidationError on a cancelled offer
C19_Witness ==
    /\ last.op = "release" /\ last.qty = 0 /\ last.err = "ValidationError"
    /\ offer.status = "cancelled"

\* the status reserve works on: the stored one after the refresh at clock
Refreshed(o) ==
    IF o.status \notin {"cancelled", "sold_out"} /\ clock > EffectiveDeadline(o)
        THEN "expired" ELSE o.status

\* C20: reserve(qty, now) refreshes the time-derived status first and then
\* checks in this order: qty <= 0 gives ValidationError, a status that is not
\* active gives NotAvailableError, quantity_available < qty gives
\* InsufficientQuantityError; a call that breaks several rules reports the
\* earliest.
C20_ReserveCheckOrder ==
    [][(CallStep("reserve") /\ offer # NoOffer)
        => (/\ last'.err =
                  IF last'.qty <= 0 THEN "ValidationError"
                  ELSE IF Refreshed(offer) # "active" THEN "NotAvailableError"
                  ELSE IF offer.quantity_available < last'.qty
                      THEN "InsufficientQuantityError"
                  ELSE "ok"
            /\ last'.err # "ok" => offer'.status = Refreshed(offer))]_vars

\* reserve(0) past the deadline, on an offer with no stock left that was not
\* sold_out: ValidationError, and the offer is expired as of this instant
C20_Witness ==
    /\ last.op = "reserve" /\ last.qty = 0 /\ last.err = "ValidationError"
    /\ offer.status = "expired" /\ offer.updated_at = clock
    /\ offer.quantity_available = 0

\* C21: once a reservation has been committed, no reserve_offer request makes
\* the stored quantity_available go up, under any interleaving of requests.
C21_ReserveNeverRaisesStock ==
    [][\A p \in Procs :
         (/\ ghost.reserved_ok > 0 /\ row # NoRow
          /\ req[p].pc = "loaded" /\ req[p].op = "reserve"
          /\ req'[p].pc = "done" /\ req'[p].result = "ok")
         => row'.quantity_available <= row.quantity_available]_vars

\* session p ends a request op in this step
Ends(p, op) == req[p].pc = "loaded" /\ req[p].op = op /\ req'[p].pc = "done"

C24_OnlyOwnerWrites ==
    [][\A p \in Procs :
         (Ends(p, "update") \/ Ends(p, "delete")) =>
           /\ (row # NoRow /\ req'[p].place # row.place_id) => row' = row
           /\ (req[p].seen # NoOffer /\ req'[p].place # req[p].seen.place_id)
               => (req'[p].result = "NotAvailableError" /\ row' = row)]_vars

\* a delete_offer by another place was refused on an offer with nothing
\* reserved, and the offer is still stored
C24_Witness ==
    \E p \in Procs :
        /\ req[p].pc = "done" /\ req[p].op = "delete"
        /\ req[p].result = "NotAvailableError"
        /\ row # NoRow /\ req[p].place # row.place_id
        /\ row.quantity_available = row.quantity_total

\* C30: update_offer fails with NotAvailableError and stores nothing for an
\* offer that is cancelled or expired, also when the status expired is the one
\* get_offer reports because the effective deadline has passed at the time of
\* the call (stated for the offers that pass _validate).
C30_NoUpdateOnceExpired ==
    [][\A p \in Procs :
         (/\ Ends(p, "update") /\ req[p].seen # NoOffer
          /\ validate(req[p].seen) = "ok"
          /\ refresh_time_status(req[p].seen, clock).status
                \in {"cancelled", "expired"})
         => (req'[p].result = "NotAvailableError" /\ row' = row)]_vars

\* C25: the place_id of an offer is the same in every state after its
\* creation: no activate, pause, cancel, reserve, release, refresh or
\* update_offer changes it.
C25_PlaceNeverChanges ==
    [][(offer # NoOffer /\ offer' # NoOffer) => offer'.place_id = offer.place_id]_vars

\* an update_offer by the owner has just succeeded and one by another place
\* would be the next refused
C25_Witness ==
    /\ last.op = "update" /\ last.err = "ok"
    /\ offer.updated_at = clock
    /\ \E place \in Places, data \in OtherPlaceInputs :
          /\ place # offer.place_id
          /\ update_offer(offer, place, data, clock).err = "NotAvailableError"

\* the invalid input named for Offer.create, for a title of n characters
InvalidCreate(x, n) ==
    \/ x.quantity_total <= 0
    \/ x.pickup_end <= x.pickup_start
    \/ x.price.amount > x.original_price.amount
    \/ x.price.currency # x.original_price.currency
    \/ n < MinTitle \/ n > MaxTitle

\* what a call of Offer.create with input x, counted invalid by bad, must do
CreateContract(c, bad) ==
    /\ c.err \in {"ok", "ValidationError"}
    /\ c.err = "ok" =>
         /\ c.out # NoOffer
         /\ c.out.status = "draft"
         /\ c.out.quantity_available = c.x.quantity_total
         /\ c.out.quantity_total = c.x.quantity_total
    /\ c.err # "ok" => c.out = NoOffer
    /\ bad => c.err = "ValidationError"

\* C26 as stated, the title measured as it is passed: every offer returned by
\* Offer.create has status draft and quantity_available = quantity_total; a
\* call with quantity_total <= 0, pickup_end <= pickup_start, price >
\* original_price, a currency mismatch or a title shorter than 3 or longer
\* than 120 fails with ValidationError and returns no offer.
C26_CreateAsStated ==
    calc.op = "create" => CreateContract(calc, InvalidCreate(calc.x, len(calc.x.title)))

\* C26: every offer returned by Offer.create has status draft and
\* quantity_available = quantity_total; a call with quantity_total <= 0,
\* pickup_end <= pickup_start, price > original_price, a currency mismatch or
\* a title that, once its surrounding whitespace is stripped, is shorter than
\* 3 or longer than 120 fails with ValidationError and returns no offer.
C26_CreateContract ==
    calc.op = "create" =>
        CreateContract(calc, InvalidCreate(calc.x, len(strip(calc.x.title))))

\* Offer.create returned a draft for a title of 121 characters, 120 of them
\* once stripped
C26_Witness ==
    /\ calc.op = "create" /\ calc.err = "ok"
    /\ len(calc.x.title) > MaxTitle /\ len(strip(calc.x.title)) = MaxTitle
    /\ calc.out.status = "draft"
    /\ calc.out.quantity_available = MaxQty

\* C27: a - b fails with ValidationError when the currencies differ or when
\* a.amount < b.amount; a + b fails with ValidationError when the currencies
\* differ; for amounts of the same currency (a + b) - b equals a.
C27_MoneyArithmetic ==
    /\ calc.op = "sub"
        => (((calc.x.currency # calc.y.currency) \/ (calc.x.amount < calc.y.amount))
              => (calc.err = "ValidationError" /\ calc.out = NoMoney))
    /\ calc.op = "add"
        => IF calc.x.currency # calc.y.currency
             THEN calc.err = "ValidationError" /\ calc.out = NoMoney
             ELSE calc.err = "ok"
    /\ calc.op = "sub_back" => (calc.err = "ok" /\ calc.out = calc.x)

\* (a + b) - b was computed for two positive amounts of one currency
C27_Witness ==
    /\ calc.op = "sub_back" /\ calc.err = "ok"
    /\ calc.x.amount > 0 /\ calc.y.amount > calc.x.amount
    /\ calc.out = calc.x

\* C28: constructing Money fails with ValidationError when amount < 0 or the
\* currency is not exactly 3 characters; otherwise the stored amount is the
\* input rounded half-up to 2 decimals (0.005 becomes 0.01) and the stored
\* currency is upper-cased, so every Money value has amount >= 0.
C28_MoneyConstruction ==
    calc.op = "Money" =>
        IF calc.x.amount < 0 \/ calc.x.currency \in {"RU", "", "RUBL"}
          THEN calc.err = "ValidationError" /\ calc.out = NoMoney
          ELSE /\ calc.err = "ok"
               /\ calc.out.amount >= 0
               /\ 10 * calc.out.amount - 5 <= calc.x.amount
               /\ calc.x.amount < 10 * calc.out.amount + 5
               /\ calc.x.amount = 5 => calc.out.amount = 1
               /\ calc.out.currency \in {"RUB", "USD"}
               /\ calc.x.currency \in {"RUB", "rub"} => calc.out.currency = "RUB"

\* Money(0.005, "rub") was constructed: 0.01 RUB
C28_Witness ==
    /\ calc.op = "Money" /\ calc.err = "ok"
    /\ calc.x = [amount |-> 5, currency |-> "rub"]
    /\ calc.out = [amount |-> 1, currency |-> "RUB"]

\* C29: discount_percent is 0 when price >= original_price or original_price
\* is 0; otherwise it is 100 * (1 - price / original_price) rounded half-up,
\* that is the integer r with r - 1/2 <= 100 * (1 - price / original_price)
\* < r + 1/2; the result is in 0..100 (price 5.00 against 10.00 gives 50).
C29_DiscountPercent ==
    calc.op = "discount" =>
        LET p == calc.x.amount
            q == calc.y.amount
            r == calc.out
        IN  /\ r \in 0..100
            /\ IF q = 0 \/ p >= q
                  THEN r = 0
                  ELSE /\ (2 * r - 1) * q <= 200 * (q - p)
                       /\ 200 * (q - p) < (2 * r + 1) * q
            /\ (p = 500 /\ q = 1000) => r = 50

\* a discount that falls exactly on a half was computed: 0.07 against 0.08 is
\* 12.5 percent, reported as 13
C29_Witness ==
    /\ calc.op = "discount"
    /\ calc.x.amount = 7 /\ calc.y.amount = 8
    /\ calc.out = 13

\* C31: when get_offer observes that the offer it loaded has passed its
\* effective deadline and turns it to expired, the stored status of the offer
\* is expired once the request has ended, so that a later load returns expired
\* without another refresh (stated for the offers that pass _validate).
C31_ExpiryIsStored ==
    [][\A p \in Procs :
         (/\ Ends(p, "get")
          /\ req[p].seen # NoOffer
          /\ validate(req[p].seen) = "ok"
          /\ req[p].seen.status # "expired"
          /\ req'[p].ret.status = "expired"
          /\ row' # NoRow)
         => row'.status = "expired"]_vars

\* C32: list_offers with active_only = true returns only offers whose status
\* is active and whose effective deadline has not passed at the time of the
\* call, in ascending order of pickup_end; every returned offer is one of the
\* stored offers.
C32_ListActiveOnly ==
    (calc.op = "list" /\ calc.x.active_only) =>
        /\ \A i \in 1..Len(calc.out) :
              /\ calc.out[i].status = "active"
              /\ ~(calc.x.now > EffectiveDeadline(calc.out[i]))
              /\ \E k \in 1..Len(calc.x.table) : calc.out[i] = to_domain(calc.x.table[k])
        /\ \A i \in 1..(Len(calc.out) - 1) :
              calc.out[i].pickup_end <= calc.out[i + 1].pickup_end

\* a listing of a table stored in descending order of pickup_end, whose first
\* row is active and past its deadline, returned the other row alone
C32_Witness ==
    /\ calc.op = "list" /\ calc.x.active_only
    /\ Len(calc.x.table) = MaxRows /\ calc.x.limit = 2 /\ calc.x.offset = 0
    /\ calc.x.table[1].pickup_end > calc.x.table[MaxRows].pickup_end
    /\ calc.x.table[MaxRows].status = "active"
    /\ calc.x.now > calc.x.table[MaxRows].pickup_end
    /\ Len(calc.out) = 1
    /\ calc.out[1] = to_domain(calc.x.table[1])

\* C33: a call reserve(qty, now) succeeds exactly when can_reserve(qty, now)
\* is true of the offer it is called on, for every offer state, qty and now,
\* offers whose expires_at is later than pickup_end included (stated for the
\* offers that pass _validate).
C33_ReserveAgreesWithCanReserve ==
    [][(CallStep("reserve") /\ validate(offer) = "ok")
         => (last'.err = "ok" <=> can_reserve(offer, last'.qty, clock))]_vars

\* C34: in every reachable state an offer whose status is sold_out has
\* quantity_available = 0, after any sequence of reserve, release, activate,
\* pause and update_offer (an update_offer that raises quantity_total included).
C34_SoldOutHasNothingLeft ==
    (offer # NoOffer /\ offer.status = "sold_out") => offer.quantity_available = 0

\* C35: in every reachable state an offer whose status is active has
\* quantity_available > 0; in particular activate on a sold_out offer does not
\* produce an active offer with nothing available.
C35_ActiveHasStock ==
    (offer # NoOffer /\ offer.status = "active") => offer.quantity_available > 0

\* C36: after a successful activate, reserve or release called with time now,
\* a resulting status of active means that now is not past the effective
\* deadline: no such call leaves the offer active when is_expired(now) is true
\* (stated for the offers that pass _validate).
C36_NeverActivePastDeadline ==
    [][(/\ CallStep("activate") \/ CallStep("reserve") \/ CallStep("release")
        /\ validate(offer) = "ok"
        /\ last'.err = "ok"
        /\ offer'.status = "active")
       => ~(clock > EffectiveDeadline(offer'))]_vars

\* C37: once an offer is expired only cancel changes its status: no call takes
\* it back to draft, active, paused or sold_out, and its quantity_available
\* never changes again, neither while it is expired nor once it is cancelled.
C37_ExpiredStaysExpired ==
    [][(offer # NoOffer /\ offer.status \in {"expired", "cancelled"})
       => /\ offer'.quantity_available = offer.quantity_available
          /\ offer.status = "expired" =>
                /\ offer'.status \in {"expired", "cancelled"}
                /\ offer'.status = "cancelled" => last'.op = "cancel"]_vars

\* activate was called on an expired offer and refused; the offer is expired
C37_Witness ==
    /\ offer # NoOffer /\ offer.status = "expired"
    /\ last.op = "activate" /\ last.err = "NotAvailableError"

\* C38: when update_offer fails (offer not found, wrong owner, cancelled or
\* expired status, quantity_total below the committed amount, activate
\* refused, _validate rejecting the changed fields) the request stores
\* nothing: the persisted offer is what it was before the step that raised.
C38_FailedUpdateStoresNothing ==
    [][\A p \in Procs :
         (Ends(p, "update") /\ req'[p].result # "ok") => row' = row]_vars

\* an update_offer asked for a quantity_total below the committed amount and
\* failed with ValidationError; the row still holds the larger commitment
C38_Witness ==
    \E p \in Procs :
        /\ req[p].pc = "done" /\ req[p].op = "update"
        /\ req[p].result = "ValidationError"
        /\ req[p].qty > 0
        /\ row # NoRow
        /\ row.quantity_total - row.quantity_available > req[p].qty

\* C39: an email verification token is single-use: over any sequence or
\* interleaving of verify_email requests with the same token at most one
\* succeeds, and a request with a used, expired or unknown token fails with
\* VerificationFailed and leaves the user as it is.
C39_TokenSingleUse ==
    [][/\ verified'.succeeded <= 1
       /\ \A p \in Procs :
            (verify[p].pc \in {"idle", "done"} /\ verify'[p].pc \in {"checked", "done"}
             /\ verify'[p] # verify[p])
            => LET t == get_by_token(verification_tokens, verify'[p].token_str)
               IN  (t = NoToken \/ t.used \/ t.expires_at < clock)
                     => /\ verify'[p].result = "VerificationFailed"
                        /\ users' = users]_vars

=============================================================================
